---- MODULE Spec2Model ----
(***************************************************************************)
(* Model of the signal scanners of thUser005/project_g_api:                *)
(*   src/buy_breakout_915.py   (run_buy, the buy / breakout scanner)       *)
(*   src/sell_breakdown_1000.py (run_sell, the sell / breakdown scanner)   *)
(* and of the MongoDB collection trading.daily_signals they share.         *)
(*                                                                         *)
(* Spec     : invocations of run_buy and run_sell, sequential and          *)
(*            overlapping, against the shared collection (the run-mode     *)
(*            resolver and the persist step).                              *)
(* SpecScan : one invocation of run_buy in detail (worker pool, fallback   *)
(*            rounds, save).                                               *)
(*                                                                         *)
(* A document is a function from the names of the fields it has to their   *)
(* values; a field the document lacks is not in its DOMAIN.  Times are     *)
(* hours of the trading day (IST); prices are integers in hundredths.      *)
(***************************************************************************)
EXTENDS Integers, Sequences, FiniteSets, TLC

\* ------------------------------------------------------------------ bounds
\* Processes that may run a scanner at the same time (a scheduled job and
\* its retry or a manual dispatch).
NumProcs == 2
\* Invocations (run_buy and run_sell together) started during the day.
MaxRuns == 3

\* ----------------------------------------------------- program constants
CAPITAL == 20000
MARGIN == 5
MAX_RETRIES == 3
FALLBACK_ROUNDS == 3
\* The scheduler dispatches the scanners inside market hours only.
MARKET_START == 9
MARKET_END == 16
\* The hours run_sell's get_run_mode tells apart.
SELL_MORNING_HOUR == 10
SELL_AFTERNOON_HOUR == 15

Procs == 1..NumProcs

\* The hours at which the clock is read: the first and the last market
\* hour (both UNKNOWN to run_sell) and the two hours of run_sell.
ClockHours ==
    {MARKET_START, SELL_MORNING_HOUR, SELL_AFTERNOON_HOUR, MARKET_END}

\* The one trade_date of the day modelled: today() in both scanners.
today == "D1"

BuyFlags == {"morning_done", "afternoon_done"}
SellFlags == {"sell_morning_done", "sell_afternoon_done"}
FlagNames == BuyFlags \cup SellFlags

\* What a scan hands to the persist step in Spec: the list of signal
\* records, by symbol.
ScanResults == {<<>>, <<"A">>}

\* --------------------------------------------------------- the collection
NoFlags == [f \in {} |-> TRUE]

\* An update with no $setOnInsert clause.
NoFields == [f \in {} |-> 0]

\* The indices of the documents of c whose trade_date is d.
Matching(c, d) == {i \in 1..Len(c) : c[i].trade_date = d}

MinOf(S) == CHOOSE m \in S : \A n \in S : m <= n

\* col.find_one({"trade_date": d}): <<doc>>, or <<>> for None.
FindOne(c, d) ==
    IF Matching(c, d) = {} THEN <<>> ELSE <<c[MinOf(Matching(c, d))]>>

\* doc.get("run_flags", {}).get(f), as a truth value.
FlagOf(doc, f) ==
    /\ "run_flags" \in DOMAIN doc
    /\ f \in DOMAIN doc.run_flags
    /\ doc.run_flags[f]

\* SetFlag gone wrong: a $set of the whole run_flags sub-document, which
\* drops the other keys.
SetFlag_Clobber(doc, f) == ("run_flags" :> (f :> TRUE)) @@ doc

\* A $set of the dotted path run_flags.<f>: only that key of the
\* sub-document is written.
SetFlag(doc, f) ==
    LET rf == IF "run_flags" \in DOMAIN doc THEN doc.run_flags ELSE NoFlags
    IN  ("run_flags" :> ((f :> TRUE) @@ rf)) @@ doc

\* The $set clause of an update: top-level fields and one run flag.
ApplySet(doc, set) == SetFlag(set.fields @@ doc, set.flag)

\* UpdateOne gone wrong: the creation fields written on a match as well (as
\* if they were part of $set).
UpdateOne_SetOnMatch(c, d, set, onInsert, upsert) ==
    LET m == Matching(c, d)
    IN  IF m # {}
        THEN [c EXCEPT ![MinOf(m)] = ApplySet(onInsert @@ @, set)]
        ELSE IF upsert
             THEN Append(c, ApplySet(onInsert @@ [trade_date |-> d], set))
             ELSE c

\* col.update_one({"trade_date": d}, {"$set": set, "$setOnInsert": onInsert},
\* upsert): the first matching document gets the $set; with no match and
\* upsert, a document made of the filter, $setOnInsert and $set is inserted.
UpdateOne(c, d, set, onInsert, upsert) ==
    LET m == Matching(c, d)
    IN  IF m # {}
        THEN [c EXCEPT ![MinOf(m)] = ApplySet(@, set)]
        ELSE IF upsert
             THEN Append(c, ApplySet(onInsert @@ [trade_date |-> d], set))
             ELSE c

\* InsertOne gone wrong: the unique index on trade_date is not enforced.
InsertOne_NoIndex(c, doc, indexed) == [ok |-> TRUE, col |-> Append(c, doc)]

\* col.insert_one(doc) on a collection with (indexed) or without the unique
\* index on trade_date: DuplicateKeyError, or the document appended.
InsertOne(c, doc, indexed) ==
    IF indexed /\ Matching(c, doc.trade_date) # {}
    THEN [ok |-> FALSE, col |-> c]
    ELSE [ok |-> TRUE, col |-> Append(c, doc)]

\* ------------------------------------------------------------------- state
VARIABLES
    col,         \* trading.daily_signals: the documents, in insertion order
    unique,      \* whether the unique index on trade_date has been created
    now,         \* the wall clock: the hour of the day (IST)
    pc,          \* per process: where its invocation stands
    run_mode,    \* per process: the run mode its invocation resolved
    signals,     \* per process: buy_signals / sell_signals of its scan
    existing,    \* per process: whether run_sell's find_one returned a document
    runs,        \* invocations started so far
    overlapped,  \* whether an invocation ever started while another was running
    nwrites,     \* per run flag: the writes performed that set it
    nsent        \* messages handed to send_message

dayVars == <<col, unique, now, pc, run_mode, signals, existing, runs,
             overlapped, nwrites, nsent>>

\* The state of one run_buy followed in detail (SpecScan).
VARIABLES
    spc,             \* where the run stands: start, scan, save, done
    all_stocks,      \* the master list loaded from obj_data.json
    scan_mode,       \* run_mode of the run
    round_no,        \* the fallback round being scanned
    current_stocks,  \* the entries submitted to the worker pool this round
    pending,         \* the futures of the round not yet collected
    next_failed,     \* symbols returned as failed this round
    failed_symbols,  \* failed_symbols of run_buy
    buy_signals,     \* the signal records collected
    outbox,          \* the messages this run handed to send_message
    saved,           \* whether the run reached update_one
    last,            \* per symbol: why of its most recent process_stock
    nscans           \* per symbol: the rounds that fetched its candles

scanVars == <<spc, all_stocks, scan_mode, round_no, current_stocks, pending,
              next_failed, failed_symbols, buy_signals, outbox, saved, last,
              nscans>>

\* run_sell followed in detail shares spc, all_stocks (its stocks),
\* scan_mode, pending, outbox, saved and last with run_buy; with them:
VARIABLES
    sell_signals     \* sell_signals of run_sell

\* One evaluation of a pure function of the scanners.
VARIABLES
    ev_pc,           \* input: not evaluated yet; done: ev_out holds the result
    ev_in,           \* the arguments
    ev_out           \* what the function returned

evalVars == <<ev_pc, ev_in, ev_out>>

\* The scheduler loop of app.py.
VARIABLES
    triggered_today,  \* triggered_today
    last_date,        \* last_date; 0 stands for None
    last_minute,      \* last_minute; -1 stands for None
    calls,            \* the calls of trigger_workflow of the latest iteration
    dispatched,       \* per date and key: the calls of trigger_workflow
    alive             \* whether the loop is still running

schedVars == <<triggered_today, last_date, last_minute, calls, dispatched,
               alive>>

\* What the invocations of Spec leave alone.
offDay == <<scanVars, sell_signals, evalVars, schedVars>>

vars == <<dayVars, scanVars, sell_signals, evalVars, schedVars>>

\* ---------------------------------------------------------------- run mode
\* get_run_mode_buy gone wrong: any Day Record of the date means the morning
\* is done, whoever created it.
get_run_mode_buy_AnyRecord(c, trade_date) ==
    IF FindOne(c, trade_date) = <<>> THEN "MORNING" ELSE "AFTERNOON"

\* buy_breakout_915.get_run_mode(col, trade_date)
get_run_mode_buy(c, trade_date) ==
    LET doc == FindOne(c, trade_date)
    IN  IF doc = <<>> THEN "MORNING"
        ELSE IF ~FlagOf(doc[1], "morning_done") THEN "MORNING"
        ELSE "AFTERNOON"

\* sell_breakdown_1000.get_run_mode(): the hour of the wall clock alone.
get_run_mode_sell(hour) ==
    IF hour = SELL_MORNING_HOUR THEN "MORNING"
    ELSE IF hour = SELL_AFTERNOON_HOUR THEN "AFTERNOON"
    ELSE "UNKNOWN"

\* f"run_flags.{run_mode.lower()}_done"
BuyFlagOf(mode) == IF mode = "MORNING" THEN "morning_done" ELSE "afternoon_done"

SellFlagOf(mode) ==
    IF mode = "MORNING" THEN "sell_morning_done" ELSE "sell_afternoon_done"

Busy(p) == pc[p] # "idle"

\* A new invocation runs in the lowest process slot that is free.
FreeSlot(p) == pc[p] = "idle" /\ \A q \in Procs : q < p => Busy(q)

DayInit ==
    /\ col = <<>>
    /\ unique = FALSE
    /\ now = MARKET_START
    /\ pc = [p \in Procs |-> "idle"]
    /\ run_mode = [p \in Procs |-> "none"]
    /\ signals = [p \in Procs |-> <<>>]
    /\ existing = [p \in Procs |-> FALSE]
    /\ runs = 0
    /\ overlapped = FALSE
    /\ nwrites = [f \in FlagNames |-> 0]
    /\ nsent = 0

\* The locals of an invocation that has returned.
Return(p) ==
    /\ pc' = [pc EXCEPT ![p] = "idle"]
    /\ run_mode' = [run_mode EXCEPT ![p] = "none"]
    /\ signals' = [signals EXCEPT ![p] = <<>>]
    /\ existing' = [existing EXCEPT ![p] = FALSE]

\* The clock moves on to its next reading.
Tick ==
    /\ now < MARKET_END
    /\ now' = MinOf({h \in ClockHours : h > now})
    /\ UNCHANGED <<col, unique, pc, run_mode, signals, existing, runs,
                   overlapped, nwrites, nsent>>
    /\ UNCHANGED offDay

\* ------------------------------------------------------------------ run_buy
\* run_buy up to the save: create_index, get_run_mode, and the scan (which
\* does not touch the collection).
BuyStart(p) ==
    /\ FreeSlot(p)
    /\ runs < MaxRuns
    /\ runs' = runs + 1
    /\ overlapped' = (overlapped \/ \E q \in Procs \ {p} : Busy(q))
    /\ unique' = TRUE
    /\ run_mode' = [run_mode EXCEPT ![p] = get_run_mode_buy(col, today)]
    /\ \E r \in ScanResults : signals' = [signals EXCEPT ![p] = r]
    /\ pc' = [pc EXCEPT ![p] = "buy_save"]
    /\ UNCHANGED <<col, now, existing, nwrites, nsent>>
    /\ UNCHANGED offDay

\* The $set clause of run_buy's payload.
BuySet(sigs, mode, t) ==
    [fields |-> [buy_signals |-> sigs, updated_at |-> t],
     flag |-> BuyFlagOf(mode)]

\* The $setOnInsert clause of run_buy's payload.
BuyOnInsert(t) ==
    [trade_date |-> today, created_at |-> t, capital |-> CAPITAL,
     margin |-> MARGIN]

\* col.update_one({"trade_date": trade_date}, payload, upsert=True)
BuyWrite(c, sigs, mode, t) ==
    UpdateOne(c, today, BuySet(sigs, mode, t), BuyOnInsert(t), TRUE)

\* run_buy's save: the upsert, then the "No BUY signals" message.
BuySave(p) ==
    /\ pc[p] = "buy_save"
    /\ col' = BuyWrite(col, signals[p], run_mode[p], now)
    /\ nwrites' = [nwrites EXCEPT ![BuyFlagOf(run_mode[p])] = @ + 1]
    /\ nsent' = IF signals[p] = <<>> THEN nsent + 1 ELSE nsent
    /\ Return(p)
    /\ UNCHANGED <<unique, now, runs, overlapped>>
    /\ UNCHANGED offDay

\* ----------------------------------------------------------------- run_sell
\* run_sell up to the connection: get_run_mode and the scan.
SellStart(p) ==
    /\ FreeSlot(p)
    /\ runs < MaxRuns
    /\ runs' = runs + 1
    /\ overlapped' = (overlapped \/ \E q \in Procs \ {p} : Busy(q))
    /\ run_mode' = [run_mode EXCEPT ![p] = get_run_mode_sell(now)]
    /\ \E r \in ScanResults : signals' = [signals EXCEPT ![p] = r]
    /\ pc' = [pc EXCEPT ![p] = "sell_find"]
    /\ UNCHANGED <<col, unique, now, existing, nwrites, nsent>>
    /\ UNCHANGED offDay

\* create_index and existing = col.find_one({"trade_date": trade_date}).
SellFind(p) ==
    /\ pc[p] = "sell_find"
    /\ unique' = TRUE
    /\ existing' = [existing EXCEPT ![p] = (FindOne(col, today) # <<>>)]
    /\ pc' = [pc EXCEPT ![p] = "sell_write"]
    /\ UNCHANGED <<col, now, run_mode, signals, runs, overlapped, nwrites,
                   nsent>>
    /\ UNCHANGED offDay

SellSet(p) ==
    [fields |-> [sell_signals |-> signals[p], updated_at |-> now],
     flag |-> SellFlagOf(run_mode[p])]

\* The $setOnInsert clause of run_sell's morning upsert.
SellOnInsert == [trade_date |-> today, created_at |-> now]

\* The document run_sell inserts in the afternoon when find_one found none.
SellAfternoonDoc(p) ==
    [trade_date |-> today, created_at |-> now, updated_at |-> now,
     run_flags |-> [sell_morning_done |-> FALSE, sell_afternoon_done |-> TRUE],
     sell_signals |-> signals[p]]

\* The "No SELL signals" message after the write.
SellReport(p) == nsent' = IF signals[p] = <<>> THEN nsent + 1 ELSE nsent

\* run_sell's write, by run mode, and what follows it.
SellWrite(p) ==
    /\ pc[p] = "sell_write"
    /\ \/ /\ run_mode[p] = "MORNING"
          /\ col' = UpdateOne(col, today, SellSet(p), SellOnInsert, TRUE)
          /\ nwrites' = [nwrites EXCEPT !["sell_morning_done"] = @ + 1]
          /\ SellReport(p)
       \/ /\ run_mode[p] = "AFTERNOON"
          /\ ~existing[p]
          /\ InsertOne(col, SellAfternoonDoc(p), unique).ok
          /\ col' = InsertOne(col, SellAfternoonDoc(p), unique).col
          /\ nwrites' = [nwrites EXCEPT !["sell_afternoon_done"] = @ + 1]
          /\ SellReport(p)
       \/ /\ run_mode[p] = "AFTERNOON"
          /\ ~existing[p]
          /\ ~InsertOne(col, SellAfternoonDoc(p), unique).ok
          \* DuplicateKeyError: caught by run_sell, notify_exception("MAIN RUN")
          /\ nsent' = nsent + 1
          /\ UNCHANGED <<col, nwrites>>
       \/ /\ run_mode[p] = "AFTERNOON"
          /\ existing[p]
          /\ col' = UpdateOne(col, today, SellSet(p), NoFields, FALSE)
          /\ nwrites' = [nwrites EXCEPT !["sell_afternoon_done"] =
                            IF Matching(col, today) # {} THEN @ + 1 ELSE @]
          /\ SellReport(p)
       \/ /\ run_mode[p] = "UNKNOWN"
          /\ SellReport(p)
          /\ UNCHANGED <<col, nwrites>>
    /\ Return(p)
    /\ UNCHANGED <<unique, now, runs, overlapped>>
    /\ UNCHANGED offDay

Next ==
    \/ Tick
    \/ \E p \in Procs : BuyStart(p)
    \/ \E p \in Procs : BuySave(p)
    \/ \E p \in Procs : SellStart(p)
    \/ \E p \in Procs : SellFind(p)
    \/ \E p \in Procs : SellWrite(p)

\* ------------------------------------------------------- the buy evaluator
\* RoundDiv gone wrong: the digits after the second decimal are cut off.
RoundDiv_Truncate(n, d) == n \div d

\* round(n / d, 2) on hundredths: the nearest integer to n / d, halves to
\* the even one (Python's round).
RoundDiv(n, d) ==
    LET q == n \div d
        r == n % d
    IN  IF 2 * r < d THEN q
        ELSE IF 2 * r > d THEN q + 1
        ELSE IF q % 2 = 0 THEN q ELSE q + 1

\* v.lower() for the strings the master list holds.
Lower(v) == IF v \in {"TRUE", "True"} THEN "true" ELSE v

\* to_bool(v) for a string v.
to_bool(v) == Lower(v) = "true"

\* One HTTP attempt failed (transport error or non-2xx status).
HttpError == [ok |-> FALSE, candles |-> <<>>]

\* fetch_candles_with_retry(symbol, start, end): responses[k] is what
\* attempt k would get.  The candles of the first attempt that succeeds, and
\* [] after MAX_RETRIES failures.
RECURSIVE FetchFrom(_, _)
FetchFrom(responses, attempt) ==
    IF attempt > MAX_RETRIES THEN <<>>
    ELSE IF responses[attempt].ok THEN responses[attempt].candles
    ELSE FetchFrom(responses, attempt + 1)

fetch_candles_with_retry(responses) == FetchFrom(responses, 1)

\* The requests.get calls of one fetch_candles_with_retry, in order: whether
\* each succeeded.  The loop returns from inside its first successful attempt.
RECURSIVE AttemptsFrom(_, _)
AttemptsFrom(responses, attempt) ==
    IF attempt > MAX_RETRIES THEN <<>>
    ELSE IF responses[attempt].ok THEN <<TRUE>>
    ELSE <<FALSE>> \o AttemptsFrom(responses, attempt + 1)

\* HttpAttempts gone wrong: the loop goes on after a successful attempt.
HttpAttempts_NoReturn(responses) ==
    [k \in 1..MAX_RETRIES |-> responses[k].ok]

HttpAttempts(responses) == AttemptsFrom(responses, 1)

MaxOf(S) == CHOOSE m \in S : \A n \in S : m >= n

\* extract_day_high_low(candles): <<>> stands for None.
extract_day_high_low(candles) ==
    LET long == {i \in 1..Len(candles) : Len(candles[i].f) >= 4}
    IN  IF long = {} THEN [high |-> <<>>, low |-> <<>>]
        ELSE [high |-> <<MaxOf({candles[i].f[3] : i \in long})>>,
              low |-> <<MinOf({candles[i].f[4] : i \in long})>>]

\* Whether extract_day_high_low meets a high or low that is not a number
\* (TypeError in max / min).
HighLowRaises(candles) ==
    \E i \in 1..Len(candles) : Len(candles[i].f) >= 4 /\ ~candles[i].numeric

\* The signal record process_stock returns.
BuySignal(symbol, candles, mode) ==
    LET open_price == candles[1].f[2]
        entry == RoundDiv(open_price * 103, 100)
        hl == IF mode = "AFTERNOON" THEN extract_day_high_low(candles)
              ELSE [high |-> <<>>, low |-> <<>>]
    IN  [symbol |-> symbol,
         open |-> open_price,
         entry |-> entry,
         target |-> RoundDiv(entry * 103, 100),
         stoploss |-> RoundDiv(entry * 99, 100),
         qty |-> (CAPITAL * 100) \div entry,
         day_high |-> hl.high,
         day_low |-> hl.low,
         status |-> "PENDING"]

\* The values process_stock returns: None, the symbol, the signal record.
\* why names the return statement taken.
ResNone == [tag |-> "None", why |-> "skipped"]
ResStr(symbol, why) == [tag |-> "str", symbol |-> symbol, why |-> why]
ResDict(rec) == [tag |-> "dict", rec |-> rec, why |-> "signal"]

\* UnboundLocalError out of process_stock's except block, which formats
\* symbol before it was assigned.
ResRaise == [tag |-> "raise", why |-> "unbound"]

\* What process_stock returns for a first candle it rejects: too short, no
\* price, too little volume, or a price above the capital.
Reject(symbol, why) == ResStr(symbol, why)

\* buy_breakout_915.process_stock(stock, start, end, run_mode), given what
\* the HTTP attempts get.  why = "error" is the except block, which calls
\* notify_exception and returns the symbol.  A master-list entry that is not
\* an object (stock.dict false) makes stock.get raise.
process_stock(stock, responses, mode) ==
    IF ~stock.dict THEN ResRaise
    ELSE IF ~to_bool(stock.nse_available) THEN ResNone
    ELSE IF stock.nse_code = "" THEN ResNone
    ELSE LET symbol == stock.nse_code
             candles == fetch_candles_with_retry(responses)
         IN  IF candles = <<>> THEN ResStr(symbol, "fetch")
             ELSE IF Len(candles[1].f) < 6 THEN Reject(symbol, "short")
             ELSE IF ~candles[1].numeric THEN ResStr(symbol, "error")
             ELSE IF candles[1].f[2] <= 0 \/ candles[1].f[6] < 100
                  THEN Reject(symbol, "rejected")
             ELSE IF (CAPITAL * 100) \div RoundDiv(candles[1].f[2] * 103, 100) <= 0
                  THEN Reject(symbol, "rejected")
             ELSE IF mode = "AFTERNOON" /\ HighLowRaises(candles)
                  THEN ResStr(symbol, "error")
             ELSE ResDict(BuySignal(symbol, candles, mode))

\* ------------------------------------------------------ the sell evaluator
\* IST, in minutes ahead of UTC.
IST_OFFSET == 330
\* time(10, 0), as a minute of the day.
CUTOFF == 600

\* datetime.fromtimestamp(ts / 1000, IST).time(): timestamps are minutes since
\* a midnight UTC, times of day are minutes since midnight IST.
ist_time(ts) == (ts + IST_OFFSET) % 1440

\* dt.strftime("%H:%M")
strftime(t) == <<t \div 60, t % 60>>

\* None out of sell_breakdown_1000.process_stock; why names the return taken.
SellNone(why) == [tag |-> "None", why |-> why]

\* The first loop of process_stock: morning_high, <<>> for None.
morning_high_of(candles) ==
    LET early == {i \in 1..Len(candles) : ist_time(candles[i].f[1]) <= CUTOFF}
    IN  IF early = {} THEN <<>>
        ELSE <<MaxOf({candles[i].f[3] : i \in early})>>

\* Breaches gone wrong: the candle at the cutoff itself is skipped.
Breaches_AfterCutoff(candles, mh) ==
    {i \in 1..Len(candles) :
        ist_time(candles[i].f[1]) > CUTOFF /\ candles[i].f[4] < mh}

\* The candles the second loop stops at for one morning_high: not before
\* the cutoff, low below morning_high.
Breaches(candles, mh) ==
    {i \in 1..Len(candles) :
        ist_time(candles[i].f[1]) >= CUTOFF /\ candles[i].f[4] < mh}

\* The signal record built from candle i.
SellSignal(symbol, candles, mh, i, mode) ==
    LET entry == candles[i].f[5]
        hl == IF mode = "AFTERNOON" THEN extract_day_high_low(candles)
              ELSE [high |-> <<>>, low |-> <<>>]
    IN  [symbol |-> symbol,
         morning_high |-> mh,
         entry |-> entry,
         target |-> RoundDiv(entry * 97, 100),
         stoploss |-> RoundDiv(entry * 102, 100),
         qty |-> (CAPITAL * 100) \div entry,
         entry_time |-> strftime(ist_time(candles[i].f[1])),
         day_high |-> hl.high,
         day_low |-> hl.low,
         status |-> "PENDING"]

\* sell_breakdown_1000.process_stock(stock, start, end, run_mode), given what
\* the HTTP attempts get.  why = "error" is the except block, which calls
\* notify_exception and returns None: a candle that does not unpack into six
\* numbers, or an entry of 0 (ZeroDivisionError).  For a master-list entry
\* that is not an object, stock.get raises in the try block and again in the
\* except block.
process_stock_sell(stock, responses, mode) ==
    IF ~stock.dict THEN ResRaise
    ELSE IF ~to_bool(stock.nse_available) THEN SellNone("skipped")
    ELSE IF stock.nse_code = "" THEN SellNone("skipped")
    ELSE LET symbol == stock.nse_code
             candles == fetch_candles_with_retry(responses)
         IN  IF candles = <<>> THEN SellNone("fetch")
             ELSE IF \E i \in 1..Len(candles) :
                        Len(candles[i].f) # 6 \/ ~candles[i].numeric
                  THEN SellNone("error")
             ELSE LET mh == morning_high_of(candles)
                  IN  IF mh = <<>> THEN SellNone("nomorning")
                      ELSE IF Breaches(candles, mh[1]) = {}
                           THEN SellNone("nobreach")
                      ELSE LET i == MinOf(Breaches(candles, mh[1]))
                           IN  IF candles[i].f[5] = 0 THEN SellNone("error")
                               ELSE IF (CAPITAL * 100) \div candles[i].f[5] <= 0
                                    THEN SellNone("rejected")
                               ELSE ResDict(SellSignal(symbol, candles, mh[1],
                                                       i, mode))

\* ------------------------------------------------------- fixtures of a scan
\* Master-list entries scanned by one run_buy.
NumStocks == 2

Codes == <<"A", "B", "C", "D", "E">>

Stock(code, avail) == [dict |-> TRUE, nse_code |-> code, nse_available |-> avail]

\* What the last entry of the master list may be: tradable, not tradable,
\* without a code, or not an object at all.
LastEntries(code) ==
    {Stock(code, "TRUE"), Stock(code, "false"), Stock("", "true"),
     [dict |-> FALSE, nse_code |-> "", nse_available |-> ""]}

MasterLists ==
    {[i \in 1..NumStocks |->
         IF i < NumStocks THEN Stock(Codes[i], "true") ELSE e] :
       e \in LastEntries(Codes[NumStocks])}

\* A candle [timestamp, open, high, low, close, volume], prices in hundredths.
Candle(o, h, l, c, v) == [f |-> <<1, o, h, l, c, v>>, numeric |-> TRUE]

CandleLists ==
    {<<Candle(10000, 10000, 9900, 9950, 500)>>,
     <<Candle(0, 10000, 9900, 9950, 500)>>,
     <<Candle(10000, 10000, 9900, 9950, 99)>>,
     <<Candle(3000000, 3000000, 3000000, 3000000, 500)>>,
     <<[f |-> <<1, 10000, 10000>>, numeric |-> TRUE]>>,
     <<[f |-> <<1, 0, 0, 0, 0, 0>>, numeric |-> FALSE]>>}

\* What one HTTP attempt may get: an error, or a JSON body with candles
\* (possibly none).
Responses ==
    {HttpError} \cup {[ok |-> TRUE, candles |-> c] : c \in CandleLists \cup {<<>>}}

\* What the attempts of one fetch may get: errors up to the first success
\* (no attempt is made after it), or errors only.
ResponseSeqs ==
    {[k \in 1..MAX_RETRIES |-> HttpError]}
    \cup {[k \in 1..MAX_RETRIES |-> IF k = n THEN r ELSE HttpError] :
            n \in 1..MAX_RETRIES, r \in Responses \ {HttpError}}

\* No evaluation is under way.
EvalIdle ==
    /\ ev_pc = "idle"
    /\ ev_in = <<>>
    /\ ev_out = <<>>

\* The keys of TRIGGERS: f"{t}-{workflow}", t as a minute of the day.
TRIGGERS ==
    <<[t |-> 557, workflow |-> "buy.yml"],
      [t |-> 600, workflow |-> "sell.yml"],
      [t |-> 940, workflow |-> "buy.yml"],
      [t |-> 940, workflow |-> "sell.yml"]>>

Keys == {TRIGGERS[i] : i \in 1..Len(TRIGGERS)}

\* The scheduler has not started.
SchedIdle ==
    /\ triggered_today = {}
    /\ last_date = 0
    /\ last_minute = -1
    /\ calls = <<>>
    /\ dispatched = [d \in {} |-> 0]
    /\ alive = FALSE

\* The run_buy of SpecScan has not started: Spec leaves it there.
ScanIdle ==
    /\ spc = "start"
    /\ all_stocks = <<>>
    /\ scan_mode = "none"
    /\ round_no = 0
    /\ current_stocks = <<>>
    /\ pending = {}
    /\ next_failed = {}
    /\ failed_symbols = {}
    /\ buy_signals = <<>>
    /\ outbox = {}
    /\ saved = FALSE
    /\ last = [c \in {} |-> ""]
    /\ nscans = [c \in {} |-> 0]
    /\ sell_signals = <<>>

\* ------------------------------------------------- one run_buy, in detail
\* The collection before the run: empty, or holding the Day Record that the
\* morning run_buy wrote at MARKET_START.
ScanCols == {<<>>, BuyWrite(<<>>, <<>>, "MORNING", MARKET_START)}

ScanInit ==
    /\ spc = "start"
    /\ all_stocks \in MasterLists
    /\ scan_mode = "none"
    /\ round_no = 0
    /\ current_stocks = <<>>
    /\ pending = {}
    /\ next_failed = {}
    /\ failed_symbols = {}
    /\ buy_signals = <<>>
    /\ outbox = {}
    /\ saved = FALSE
    /\ last = [c \in {Codes[i] : i \in 1..NumStocks} |-> "none"]
    /\ nscans = [c \in {Codes[i] : i \in 1..NumStocks} |-> 0]
    /\ sell_signals = <<>>
    /\ EvalIdle
    /\ SchedIdle
    /\ col \in ScanCols
    /\ unique = (col # <<>>)
    /\ now = (IF col = <<>> THEN MARKET_START ELSE MARKET_END - 1)
    /\ pc = [p \in Procs |-> "idle"]
    /\ run_mode = [p \in Procs |-> "none"]
    /\ signals = [p \in Procs |-> <<>>]
    /\ existing = [p \in Procs |-> FALSE]
    /\ runs = 0
    /\ overlapped = FALSE
    /\ nwrites = [f \in FlagNames |-> IF col # <<>> /\ f = "morning_done"
                                      THEN 1 ELSE 0]
    /\ nsent = 0

\* The variables of Spec that one run_buy does not touch.
otherRuns == <<now, pc, run_mode, signals, existing, runs, overlapped>>

\* What neither scanner run touches.
offScan == <<evalVars, schedVars>>

\* [s for s in all_stocks if s.get("nse_code") in failed_symbols]
RECURSIVE SelectFailed(_, _)
SelectFailed(stocks, failed) ==
    IF stocks = <<>> THEN <<>>
    ELSE IF Head(stocks).dict /\ Head(stocks).nse_code \in failed
         THEN <<Head(stocks)>> \o SelectFailed(Tail(stocks), failed)
         ELSE SelectFailed(Tail(stocks), failed)

\* run_buy from its first line to the submission of round 1: create_index,
\* get_run_mode, the master list, the futures of the first round.
ScanStart ==
    /\ spc = "start"
    /\ unique' = TRUE
    /\ scan_mode' = get_run_mode_buy(col, today)
    /\ round_no' = 1
    /\ current_stocks' = all_stocks
    /\ pending' = 1..Len(all_stocks)
    /\ spc' = "scan"
    /\ UNCHANGED <<col, nwrites, nsent, all_stocks, next_failed,
                   failed_symbols, buy_signals, outbox, saved, last, nscans>>
    /\ UNCHANGED <<otherRuns, sell_signals, offScan>>

\* The message of notify_exception(context).
ErrorMsg(context) == [kind |-> "error", context |-> context]

\* AddFailed gone wrong: the set is assigned, not added to.
AddFailed_Assign(failed, symbol) == {symbol}

\* next_failed.add(result)
AddFailed(failed, symbol) == failed \cup {symbol}

\* One future completes and the as_completed loop takes its result: a signal
\* record is appended to buy_signals, a symbol is added to next_failed.  A
\* future that raised makes future.result() raise: run_buy's except block
\* reports it and the run ends without a save.
Collect(i) ==
    /\ spc = "scan"
    /\ i \in pending
    /\ \E responses \in ResponseSeqs :
         LET stock == current_stocks[i]
             res == process_stock(stock, responses, scan_mode)
         IN  /\ pending' = IF res.tag = "raise" THEN {} ELSE pending \ {i}
             /\ spc' = IF res.tag = "raise" THEN "done" ELSE "scan"
             /\ buy_signals' = IF res.tag = "dict"
                               THEN Append(buy_signals, res.rec)
                               ELSE buy_signals
             /\ next_failed' = IF res.tag = "str"
                               THEN AddFailed(next_failed, res.symbol)
                               ELSE next_failed
             /\ outbox' = IF res.tag = "raise"
                          THEN outbox \cup {ErrorMsg("MAIN RUN")}
                          ELSE IF res.why = "error"
                          THEN outbox \cup {ErrorMsg(res.symbol)}
                          ELSE outbox
             /\ last' = IF res.tag \in {"str", "dict"}
                        THEN [last EXCEPT ![stock.nse_code] = res.why]
                        ELSE last
             /\ nscans' = IF res.tag \in {"str", "dict"}
                          THEN [nscans EXCEPT ![stock.nse_code] = @ + 1]
                          ELSE nscans
    /\ UNCHANGED <<col, unique, nwrites, nsent, all_stocks, scan_mode,
                   round_no, current_stocks, failed_symbols, saved>>
    /\ UNCHANGED <<otherRuns, sell_signals, offScan>>

\* The end of a round: break when nothing failed; otherwise failed_symbols
\* and current_stocks are replaced and, unless this was the last round, the
\* next round is submitted.
RoundEnd ==
    /\ spc = "scan"
    /\ pending = {}
    /\ IF next_failed = {}
       THEN /\ spc' = "save"
            /\ UNCHANGED <<failed_symbols, current_stocks, round_no, pending,
                           next_failed>>
       ELSE /\ failed_symbols' = next_failed
            /\ current_stocks' = SelectFailed(all_stocks, next_failed)
            /\ IF round_no < FALLBACK_ROUNDS
               THEN /\ round_no' = round_no + 1
                    /\ pending' = 1..Len(current_stocks')
                    /\ next_failed' = {}
                    /\ spc' = "scan"
               ELSE /\ spc' = "save"
                    /\ UNCHANGED <<round_no, pending, next_failed>>
    /\ UNCHANGED <<col, unique, nwrites, nsent, all_stocks, scan_mode,
                   buy_signals, outbox, saved, last, nscans>>
    /\ UNCHANGED <<otherRuns, sell_signals, offScan>>

\* After the loop: the "Unavailable after retries" warning when
\* failed_symbols is not empty, the upsert, and the "No BUY signals" message.
ScanSave ==
    /\ spc = "save"
    /\ col' = BuyWrite(col, buy_signals, scan_mode, now)
    /\ nwrites' = [nwrites EXCEPT ![BuyFlagOf(scan_mode)] = @ + 1]
    /\ outbox' = outbox
                 \cup (IF failed_symbols # {}
                       THEN {[kind |-> "unavailable", symbols |-> failed_symbols]}
                       ELSE {})
                 \cup (IF buy_signals = <<>> THEN {[kind |-> "no_signals"]}
                       ELSE {})
    /\ saved' = TRUE
    /\ spc' = "done"
    /\ UNCHANGED <<unique, nsent, all_stocks, scan_mode, round_no,
                   current_stocks, pending, next_failed, failed_symbols,
                   buy_signals, last, nscans>>
    /\ UNCHANGED <<otherRuns, sell_signals, offScan>>

ScanNext ==
    \/ ScanStart
    \/ \E i \in 1..NumStocks : Collect(i)
    \/ RoundEnd
    \/ ScanSave

SpecScan == ScanInit /\ [][ScanNext]_vars

\* ------------------------------------------------ one run_sell, in detail
\* A candle at minute t of the day (IST).
CandleAt(t, o, h, l, c, v) ==
    [f |-> <<t - IST_OFFSET, o, h, l, c, v>>, numeric |-> TRUE]

\* What the chart of a symbol may hold when run_sell fetches it: a breakdown
\* after the cutoff, no breakdown, a candle that is cut short.
SellCandleLists ==
    {<<CandleAt(597, 10000, 10100, 9900, 10000, 500),
       CandleAt(603, 10000, 10050, 9950, 9960, 500)>>,
     <<CandleAt(597, 10000, 10100, 9900, 10000, 500),
       CandleAt(603, 10100, 10200, 10100, 10150, 500)>>,
     <<[f |-> <<267, 10000, 10100>>, numeric |-> TRUE]>>}

SellResponses ==
    {HttpError}
    \cup {[ok |-> TRUE, candles |-> c] : c \in SellCandleLists \cup {<<>>}}

\* run_sell fetches every symbol once: what its attempts may get.
SellResponseSeqs ==
    {[k \in 1..MAX_RETRIES |-> HttpError]}
    \cup {[k \in 1..MAX_RETRIES |-> IF k = n THEN r ELSE HttpError] :
            n \in 1..MAX_RETRIES, r \in SellResponses \ {HttpError}}

\* The collection before the run: empty, or holding the Day Record that the
\* morning run_buy wrote at MARKET_START.
SellScanInit ==
    /\ spc = "sell_start"
    /\ all_stocks \in MasterLists
    /\ scan_mode = "none"
    /\ round_no = 0
    /\ current_stocks = <<>>
    /\ pending = {}
    /\ next_failed = {}
    /\ failed_symbols = {}
    /\ buy_signals = <<>>
    /\ outbox = {}
    /\ saved = FALSE
    /\ last = [c \in {Codes[i] : i \in 1..NumStocks} |-> "none"]
    /\ nscans = [c \in {Codes[i] : i \in 1..NumStocks} |-> 0]
    /\ sell_signals = <<>>
    /\ EvalIdle
    /\ SchedIdle
    /\ col \in ScanCols
    /\ unique = (col # <<>>)
    /\ now \in ClockHours \ {MARKET_START}
    /\ pc = [p \in Procs |-> "idle"]
    /\ run_mode = [p \in Procs |-> "none"]
    /\ signals = [p \in Procs |-> <<>>]
    /\ existing = [p \in Procs |-> FALSE]
    /\ runs = 0
    /\ overlapped = FALSE
    /\ nwrites = [f \in FlagNames |-> IF col # <<>> /\ f = "morning_done"
                                      THEN 1 ELSE 0]
    /\ nsent = 0

\* run_sell from its first line to the submission of the futures:
\* get_run_mode, the master list, one future per entry.
SellScanStart ==
    /\ spc = "sell_start"
    /\ scan_mode' = get_run_mode_sell(now)
    /\ pending' = 1..Len(all_stocks)
    /\ spc' = "sell_scan"
    /\ UNCHANGED <<col, unique, nwrites, nsent, all_stocks, round_no,
                   current_stocks, next_failed, failed_symbols, buy_signals,
                   outbox, saved, last, nscans>>
    /\ UNCHANGED <<otherRuns, sell_signals, offScan>>

\* One future completes and the as_completed loop takes its result: a signal
\* record is appended to sell_signals, None is dropped.  A future that
\* raised makes f.result() raise: run_sell's except block reports it and the
\* run ends without a write.
SellCollect(i) ==
    /\ spc = "sell_scan"
    /\ i \in pending
    /\ \E responses \in SellResponseSeqs :
         LET stock == all_stocks[i]
             res == process_stock_sell(stock, responses, scan_mode)
             scanned == res.tag # "raise" /\ res.why # "skipped"
         IN  /\ pending' = IF res.tag = "raise" THEN {} ELSE pending \ {i}
             /\ spc' = IF res.tag = "raise" THEN "done" ELSE "sell_scan"
             /\ sell_signals' = IF res.tag = "dict"
                                THEN Append(sell_signals, res.rec)
                                ELSE sell_signals
             /\ outbox' = IF res.tag = "raise"
                          THEN outbox \cup {ErrorMsg("MAIN RUN")}
                          ELSE IF res.why = "error"
                          THEN outbox \cup {ErrorMsg(stock.nse_code)}
                          ELSE outbox
             /\ last' = IF scanned
                        THEN [last EXCEPT ![stock.nse_code] = res.why]
                        ELSE last
             /\ nscans' = IF scanned
                          THEN [nscans EXCEPT ![stock.nse_code] = @ + 1]
                          ELSE nscans
    /\ UNCHANGED <<col, unique, nwrites, nsent, all_stocks, scan_mode,
                   round_no, current_stocks, next_failed, failed_symbols,
                   buy_signals, saved>>
    /\ UNCHANGED <<otherRuns, offScan>>

\* The write of run_sell by run mode, with no other writer between its
\* find_one and its write.
SellScanWrite(c, sigs, mode, t) ==
    LET set == [fields |-> [sell_signals |-> sigs, updated_at |-> t],
                flag |-> SellFlagOf(mode)]
    IN  IF mode = "MORNING"
        THEN UpdateOne(c, today, set,
                       [trade_date |-> today, created_at |-> t], TRUE)
        ELSE IF mode = "AFTERNOON"
        THEN IF FindOne(c, today) = <<>>
             THEN InsertOne(c, [trade_date |-> today, created_at |-> t,
                                updated_at |-> t,
                                run_flags |-> [sell_morning_done |-> FALSE,
                                               sell_afternoon_done |-> TRUE],
                                sell_signals |-> sigs], TRUE).col
             ELSE UpdateOne(c, today, set, NoFields, FALSE)
        ELSE c

\* After the pool: create_index, find_one, the write, and the "No SELL
\* signals" message.
SellScanSave ==
    /\ spc = "sell_scan"
    /\ pending = {}
    /\ unique' = TRUE
    /\ col' = SellScanWrite(col, sell_signals, scan_mode, now)
    /\ nwrites' = IF scan_mode = "UNKNOWN" THEN nwrites
                  ELSE [nwrites EXCEPT ![SellFlagOf(scan_mode)] = @ + 1]
    /\ outbox' = outbox
                 \cup (IF sell_signals = <<>> THEN {[kind |-> "no_signals"]}
                       ELSE {})
    /\ saved' = TRUE
    /\ spc' = "done"
    /\ UNCHANGED <<nsent, all_stocks, scan_mode, round_no, current_stocks,
                   pending, next_failed, failed_symbols, buy_signals, last,
                   nscans>>
    /\ UNCHANGED <<otherRuns, sell_signals, offScan>>

SellScanNext ==
    \/ SellScanStart
    \/ \E i \in 1..NumStocks : SellCollect(i)
    \/ SellScanSave

\* One scanner run in detail, of either side.
SidesInit == ScanInit \/ SellScanInit

SidesNext == ScanNext \/ SellScanNext

SpecSides == SidesInit /\ [][SidesNext]_vars

\* ------------------------------------------- the pure functions, one call
\* Candles of a chart handed to the sell evaluator.
MaxCandles == 3
\* Opening prices (hundredths) from 0 up handed to the buy evaluator.
MaxOpen == 120
\* Closing prices (hundredths) from 0 up handed to the sell evaluator.
MaxClose == 60

\* INTERVAL_MINUTES
INTERVAL_MINUTES == 3

\* The attempts of a fetch whose first attempt gets candles.
Fetched(candles) == [k \in 1..MAX_RETRIES |-> [ok |-> TRUE, candles |-> candles]]

\* What one attempt of fetch_candles_with_retry may get.
FetchResponses ==
    {HttpError, [ok |-> TRUE, candles |-> <<>>],
     [ok |-> TRUE, candles |-> <<Candle(10000, 10000, 9900, 9950, 500)>>]}

\* Two fetches, by what each attempt of each would get.
FetchInputs ==
    {[fn |-> "fetch", first |-> a, second |-> b] :
        a \in [1..MAX_RETRIES -> FetchResponses],
        b \in [1..MAX_RETRIES -> FetchResponses]}

\* First candles for the buy evaluator: every open up to MaxOpen, 100.00,
\* the opens on either side of the largest entry the capital buys one share
\* at, and volumes on either side of the liquidity threshold.
BuyOpens == 0..MaxOpen \cup {10000, 1941748, 1941749}

BuyInputs ==
    {[fn |-> "buy", mode |-> m,
      candles |-> <<Candle(o, o + 50, o, o + 25, v)>>] :
        o \in BuyOpens, v \in {99, 100}, m \in {"MORNING", "AFTERNOON"}}

\* The times of the candles of a chart: one per interval, the second one at
\* the cutoff.
SlotTime(k) == CUTOFF + INTERVAL_MINUTES * (k - 2)

\* The shapes of a candle: high, low and close with low <= close <= high;
\* the highest price is above the capital.
ShapePrices == {1000, 1100, 2000100}

Shapes ==
    {[h |-> h, l |-> l, c |-> c] : h \in ShapePrices, l \in ShapePrices,
                                   c \in ShapePrices}

CandleShapes == {sh \in Shapes : sh.l <= sh.c /\ sh.c <= sh.h}

NoCandle == [h |-> 0, l |-> 0, c |-> 0]

\* The chart that has, in time order, the candle of every slot from k on
\* that holds one.
RECURSIVE Chart(_, _)
Chart(slots, k) ==
    IF k > MaxCandles THEN <<>>
    ELSE IF slots[k] = NoCandle THEN Chart(slots, k + 1)
    ELSE <<CandleAt(SlotTime(k), slots[k].l, slots[k].h, slots[k].l,
                    slots[k].c, 500)>> \o Chart(slots, k + 1)

\* Time-ascending charts of up to MaxCandles candles.
Charts ==
    {Chart(slots, 1) :
        slots \in [1..MaxCandles -> CandleShapes \cup {NoCandle}]}

\* A morning candle and a candle after the cutoff that breaks below its
\* high and closes at c.
SmallChart(c) ==
    <<CandleAt(SlotTime(1), c, c + 1, c, c, 500),
      CandleAt(SlotTime(3), c, c, c, c, 500)>>

SellInputs ==
    {[fn |-> "sell", mode |-> m, candles |-> ch] :
        ch \in (Charts \ {<<>>}) \cup {SmallChart(c) : c \in 0..MaxClose},
        m \in {"MORNING", "AFTERNOON"}}

EvalInit ==
    /\ DayInit
    /\ ScanIdle
    /\ SchedIdle
    /\ ev_pc = "input"
    /\ ev_in \in FetchInputs \cup BuyInputs \cup SellInputs
    /\ ev_out = <<>>

\* What an evaluation leaves alone.
offEval == <<dayVars, scanVars, sell_signals, schedVars>>

\* fetch_candles_with_retry, called twice.
EvalFetch ==
    /\ ev_pc = "input"
    /\ ev_in.fn = "fetch"
    /\ ev_out' = <<fetch_candles_with_retry(ev_in.first),
                   fetch_candles_with_retry(ev_in.second)>>
    /\ ev_pc' = "done"
    /\ UNCHANGED <<ev_in, offEval>>

\* buy_breakout_915.process_stock on a tradable entry whose fetch succeeds.
EvalBuy ==
    /\ ev_pc = "input"
    /\ ev_in.fn = "buy"
    /\ ev_out' = process_stock(Stock("A", "true"), Fetched(ev_in.candles),
                               ev_in.mode)
    /\ ev_pc' = "done"
    /\ UNCHANGED <<ev_in, offEval>>

\* sell_breakdown_1000.process_stock on a tradable entry whose fetch
\* succeeds.
EvalSell ==
    /\ ev_pc = "input"
    /\ ev_in.fn = "sell"
    /\ ev_out' = process_stock_sell(Stock("A", "true"),
                                    Fetched(ev_in.candles), ev_in.mode)
    /\ ev_pc' = "done"
    /\ UNCHANGED <<ev_in, offEval>>

EvalNext == EvalFetch \/ EvalBuy \/ EvalSell

SpecEval == EvalInit /\ [][EvalNext]_vars

\* ------------------------------------------- the work of one buy scan
\* One fetch, by what each of its attempts would get.
AttemptInputs ==
    {[fn |-> "attempts", responses |-> r] :
        r \in [1..MAX_RETRIES -> FetchResponses]}

AttemptsInit ==
    /\ DayInit
    /\ ScanIdle
    /\ SchedIdle
    /\ ev_pc = "input"
    /\ ev_in \in AttemptInputs
    /\ ev_out = <<>>

\* fetch_candles_with_retry, by the HTTP requests it makes.
EvalAttempts ==
    /\ ev_pc = "input"
    /\ ev_in.fn = "attempts"
    /\ ev_out' = [calls |-> HttpAttempts(ev_in.responses),
                  candles |-> fetch_candles_with_retry(ev_in.responses)]
    /\ ev_pc' = "done"
    /\ UNCHANGED <<ev_in, offEval>>

\* One run_buy, or one of the fetches its workers make.  Either goes on
\* while it has a step to take: every request is made with a timeout, every
\* loop iterates over a finite collection, and the calls to the database
\* and to send_message are taken to return.
WorkInit == ScanInit \/ AttemptsInit

WorkNext ==
    \/ ev_pc = "idle" /\ ScanNext
    \/ EvalAttempts

SpecWork == WorkInit /\ [][WorkNext]_vars /\ WF_vars(WorkNext)

\* ------------------------------------------------- the scheduler of app.py
\* Calendar days the scheduler runs through.
MaxDays == 2

\* The minutes of the day (IST) at which the loop reads the clock: the
\* times of TRIGGERS, the minute after the first, and a minute before and
\* after market hours.
SchedMinutes ==
    {TRIGGERS[i].t : i \in 1..Len(TRIGGERS)}
    \cup {TRIGGERS[1].t + 1, MARKET_START * 60 - 1, MARKET_END * 60 + 1}

\* MARKET_START <= current_time <= MARKET_END
InMarket(minute) == MARKET_START * 60 <= minute /\ minute <= MARKET_END * 60

\* What a call of trigger_workflow comes to: status 204, another status, or
\* an exception out of requests.post (no connection, timeout).
DispatchOutcomes == {"204", "failed", "raised"}

\* The daily reset: triggered_today.clear() when the date has changed.
DailyReset(triggered, seen, date) == IF seen # date THEN {} ELSE triggered

\* MarkTriggered gone wrong: the key is not recorded.
MarkTriggered_Skip(triggered, key) == triggered

\* triggered_today.add(key)
MarkTriggered(triggered, key) == triggered \cup {key}

\* The "execute trigger" loop from entry i of TRIGGERS on: every entry whose
\* time is the current minute and whose key is not in triggered_today is
\* dispatched and its key added.  An exception out of trigger_workflow is
\* not caught: it ends the program.
RECURSIVE Execute(_, _, _, _)
Execute(i, st, minute, outcome) ==
    IF i > Len(TRIGGERS) \/ ~st.alive THEN st
    ELSE IF minute = TRIGGERS[i].t /\ TRIGGERS[i] \notin st.triggered
    THEN LET call == [key |-> TRIGGERS[i], status |-> outcome[i]]
         IN  IF outcome[i] = "raised"
             THEN Execute(i + 1,
                          [triggered |-> st.triggered,
                           calls |-> Append(st.calls, call),
                           alive |-> FALSE], minute, outcome)
             ELSE Execute(i + 1,
                          [triggered |-> MarkTriggered(st.triggered, TRIGGERS[i]),
                           calls |-> Append(st.calls, call),
                           alive |-> TRUE], minute, outcome)
    ELSE Execute(i + 1, st, minute, outcome)

\* The calls of trigger_workflow for key k in a list of calls.
CallsFor(cs, k) == Cardinality({j \in 1..Len(cs) : cs[j].key = k})

\* The module-level state when the loop is entered.
SchedInit ==
    /\ DayInit
    /\ ScanIdle
    /\ EvalIdle
    /\ triggered_today = {}
    /\ last_date = 0
    /\ last_minute = -1
    /\ calls = <<>>
    /\ dispatched = [d \in 1..MaxDays |-> [k \in Keys |-> 0]]
    /\ alive = TRUE

\* What the scheduler leaves alone.
offSched == <<dayVars, scanVars, sell_signals, evalVars>>

\* One iteration of the main loop, for one reading of the clock: a date not
\* before the one last seen, any minute.  (last_status_minute only decides
\* what is printed.)
Loop ==
    /\ alive
    /\ \E date \in 1..MaxDays, minute \in SchedMinutes,
          outcome \in [1..Len(TRIGGERS) -> DispatchOutcomes] :
         LET cleared == DailyReset(triggered_today, last_date, date)
             done == Execute(1, [triggered |-> cleared, calls |-> <<>>,
                                 alive |-> TRUE], minute, outcome)
         IN  /\ date >= last_date
             /\ last_date' = date
             /\ IF ~InMarket(minute) \/ minute = last_minute
                THEN /\ triggered_today' = cleared
                     /\ calls' = <<>>
                     /\ UNCHANGED <<last_minute, dispatched, alive>>
                ELSE /\ last_minute' = minute
                     /\ triggered_today' = done.triggered
                     /\ calls' = done.calls
                     /\ alive' = done.alive
                     /\ dispatched' =
                           [dispatched EXCEPT ![date] =
                               [k \in Keys |-> @[k] + CallsFor(done.calls, k)]]
    /\ UNCHANGED offSched

SchedNext == Loop

SpecSched == SchedInit /\ [][SchedNext]_vars

Init == DayInit /\ ScanIdle /\ EvalIdle /\ SchedIdle

Spec == Init /\ [][Next]_vars

\* ================================================================== claims
\* Whether the Day Record of today has run flag f set to true.
DayFlag(c, f) == \E i \in Matching(c, today) : FlagOf(c[i], f)

\* Field name of today's Day Record: <<value>>, or <<>> when the record or
\* the field is missing.
Field(c, name) ==
    IF Matching(c, today) = {} THEN <<>>
    ELSE LET doc == c[MinOf(Matching(c, today))]
         IN  IF name \in DOMAIN doc THEN <<doc[name]>> ELSE <<>>

\* run_flags.<f> of today's Day Record as stored: <<value>>, or <<>>.
FlagRaw(c, f) ==
    IF Field(c, "run_flags") = <<>> THEN <<>>
    ELSE LET rf == Field(c, "run_flags")[1]
         IN  IF f \in DOMAIN rf THEN <<rf[f]>> ELSE <<>>

TotalWrites ==
    nwrites["morning_done"] + nwrites["afternoon_done"]
    + nwrites["sell_morning_done"] + nwrites["sell_afternoon_done"]

\* Process p starts run_buy / run_sell in this step.
StartsBuy(p) == pc[p] = "idle" /\ pc'[p] = "buy_save"
StartsSell(p) == pc[p] = "idle" /\ pc'[p] = "sell_find"
\* Process p performs its persist step in this step.
SavesBuy(p) == pc[p] = "buy_save" /\ pc'[p] = "idle"
WritesSell(p) == pc[p] = "sell_write" /\ pc'[p] = "idle"

\* C1: for the buy side and the sell side alike, an invocation that starts
\* while today's Day Record has that side's morning-done flag set to true
\* resolves run mode AFTERNOON, whatever the hour.
C1_AfternoonOnceMorningDone ==
    [][\A p \in Procs :
         /\ (StartsBuy(p) /\ DayFlag(col, "morning_done"))
               => run_mode'[p] = "AFTERNOON"
         /\ (StartsSell(p) /\ DayFlag(col, "sell_morning_done"))
               => run_mode'[p] = "AFTERNOON"]_vars

\* C2: on every invocation of either side, the resolved mode is MORNING when
\* no Day Record exists or the side's morning-done flag is unset or false,
\* and AFTERNOON otherwise; never a third mode.
C2_ModeFollowsFlag ==
    [][\A p \in Procs :
         /\ StartsBuy(p) =>
               run_mode'[p] = (IF DayFlag(col, "morning_done")
                               THEN "AFTERNOON" ELSE "MORNING")
         /\ StartsSell(p) =>
               run_mode'[p] = (IF DayFlag(col, "sell_morning_done")
                               THEN "AFTERNOON" ELSE "MORNING")]_vars

\* C3: as long as the invocations of the day have been sequential (none
\* started while another was running), run_buy has written each of its
\* phases (morning_done, afternoon_done) at most once.
C3_EachPhaseWrittenOnce ==
    ~overlapped =>
        /\ nwrites["morning_done"] <= 1
        /\ nwrites["afternoon_done"] <= 1

\* C4: the morning phase of run_buy is never written twice, also when two
\* invocations overlap.
C4_MorningWrittenOnce == nwrites["morning_done"] <= 1

\* C5: a run flag of a Day Record that is true stays true in every later
\* state of the store: no write resets or removes it, nor the record.
C5_FlagsNeverReset ==
    [][\A i \in 1..Len(col) : \A f \in FlagNames :
         FlagOf(col[i], f) => (i <= Len(col') /\ FlagOf(col'[i], f))]_vars

\* A state C5 is about: flags of both sides are true after three writes (the
\* later writes found the earlier flags set).
C5_Witness ==
    /\ DayFlag(col, "sell_morning_done")
    /\ DayFlag(col, "morning_done")
    /\ TotalWrites >= 3

\* C6: the store never holds two records; once a persist step has written,
\* it holds exactly one Day Record for the trade_date; and no step changes
\* the created_at of a record that exists.
C6_OneRecordCreatedOnce ==
    [][/\ Len(col') <= 1
       /\ (TotalWrites' > 0 => Cardinality(Matching(col', today)) = 1)
       /\ \A i \in 1..Len(col) :
             /\ i <= Len(col')
             /\ col'[i].trade_date = col[i].trade_date
             /\ col'[i].created_at = col[i].created_at]_vars

\* A state C6 is about: the record was created by one write and written
\* again at a later hour by two more.
C6_Witness ==
    /\ Len(col) = 1
    /\ TotalWrites >= 3
    /\ col[1].updated_at > col[1].created_at

\* The run flags a write for flag f does not own.
OtherFlags(f) == FlagNames \ {f}

\* Run flag f is as it was: the same truth value and, in a record that
\* existed before the step, the same stored value.
FlagKept(f) ==
    /\ DayFlag(col', f) = DayFlag(col, f)
    /\ Matching(col, today) # {} => FlagRaw(col', f) = FlagRaw(col, f)

\* The creation metadata of a record that existed before the step is as it
\* was.
MetadataKept ==
    Matching(col, today) # {} =>
        \A name \in {"trade_date", "created_at", "capital", "margin"} :
            Field(col', name) = Field(col, name)

\* C7: a persist step of run_buy leaves sell_signals, both sell flags, the
\* other buy flag and the creation metadata as they were; a persist step of
\* run_sell leaves buy_signals, both buy flags, the other sell flag and the
\* creation metadata as they were.
C7_WriteFrame ==
    [][\A p \in Procs :
         /\ SavesBuy(p) =>
               /\ Field(col', "sell_signals") = Field(col, "sell_signals")
               /\ \A f \in OtherFlags(BuyFlagOf(run_mode[p])) : FlagKept(f)
               /\ MetadataKept
         /\ WritesSell(p) =>
               /\ Field(col', "buy_signals") = Field(col, "buy_signals")
               /\ \A f \in BuyFlags : FlagKept(f)
               /\ \A f \in SellFlags :
                     (run_mode[p] = "UNKNOWN" \/ f # SellFlagOf(run_mode[p]))
                        => FlagKept(f)
               /\ MetadataKept]_vars

\* A state C7 is about: both sides have written their signals and flags into
\* the one record.
C7_Witness ==
    /\ Field(col, "buy_signals") = <<(<<"A">>)>>
    /\ Field(col, "sell_signals") = <<(<<"A">>)>>
    /\ DayFlag(col, "morning_done")
    /\ DayFlag(col, "sell_morning_done")

\* C8: every Day Record in the store carries created_at, capital and margin,
\* whichever side and phase wrote first.
C8_CreationMetadata ==
    \A i \in 1..Len(col) :
        {"created_at", "capital", "margin"} \subseteq DOMAIN col[i]

\* The ways process_stock reports a symbol as failed.
FailureWhys == {"fetch", "short", "rejected", "error"}

\* C9: after run_buy's fallback loop, failed_symbols is exactly the set of
\* symbols whose most recent scan was a failure (so it is empty when every
\* symbol that failed has recovered).
C9_FailedIsLastFailures ==
    (spc = "save" \/ saved) =>
        failed_symbols = {c \in DOMAIN last : last[c] \in FailureWhys}

\* C10: a symbol whose first candle was rejected (open_price <= 0,
\* volume < 100 or quantity <= 0) is not in the failed sets and is not
\* scanned again.
C10_RejectedIsNoSignal ==
    \A c \in DOMAIN last :
        last[c] = "rejected" =>
            /\ c \notin next_failed
            /\ c \notin failed_symbols
            /\ nscans[c] <= 1

\* The scan of the run followed in detail is over: the loop of run_buy has
\* been left, or the pool of run_sell has been joined and the write made.
ScanEnded == spc = "save" \/ saved

\* C11: on the buy side and the sell side alike, a symbol whose most recent
\* fetch exhausted its retries or returned no candles is in the failed set of
\* the scan when the scan ends (it is never dropped silently).
C11_FetchFailuresRecorded ==
    ScanEnded =>
        \A c \in DOMAIN last : last[c] = "fetch" => c \in failed_symbols

\* Every attempt of a fetch failed.
Exhausted(responses) == \A k \in 1..MAX_RETRIES : ~responses[k].ok

\* The first attempt of a fetch that succeeded got a response with no
\* candles.
NoData(responses) ==
    \E k \in 1..MAX_RETRIES :
        /\ responses[k].ok
        /\ responses[k].candles = <<>>
        /\ \A j \in 1..(k - 1) : ~responses[j].ok

\* C12: what fetch_candles_with_retry returns after MAX_RETRIES failed
\* attempts differs from what it returns when an attempt succeeds with a
\* response of zero candles (an error can be told from no data).
C12_FailureDiffersFromNoData ==
    (ev_pc = "done" /\ ev_in.fn = "fetch"
       /\ Exhausted(ev_in.first) /\ NoData(ev_in.second))
        => ev_out[1] # ev_out[2]

\* C13: in run_buy an error raised while one master-list entry is evaluated,
\* also before the symbol code has been read from it, stays in that entry's
\* task: no run ends without having reached the persist step, and no
\* run-level error is reported.
C13_ErrorsContained ==
    /\ spc = "done" => saved
    /\ ErrorMsg("MAIN RUN") \notin outbox

\* C14: a run of run_buy or run_sell that has ended has handed at least one
\* message to send_message: a report of its completion, or of its failure.
C14_EveryRunReports == spc = "done" => outbox # {}

\* The run followed in detail is a run_buy (run_sell has no rounds).
BuyRun == round_no > 0

\* The symbols of a list of signal records.
SignalSymbols(sigs) == {sigs[i].symbol : i \in 1..Len(sigs)}

\* The symbols whose most recent evaluation gave a signal record.
Signalled == {c \in DOMAIN last : last[c] = "signal"}

\* The symbols that failed in round k, from what each symbol's evaluations
\* gave: a symbol evaluated more than k times failed in round k.
FailedIn(k) ==
    {c \in DOMAIN last :
        nscans[c] > k \/ (nscans[c] = k /\ last[c] \in FailureWhys)}

\* failed_symbols as the outcomes alone determine it: the failures of the
\* last round that had any.
ExpectedFailed ==
    LET failing == {k \in 1..FALLBACK_ROUNDS : FailedIn(k) # {}}
    IN  IF failing = {} THEN {} ELSE FailedIn(MaxOf(failing))

\* C15: what a scan persists and its final failed set are determined by the
\* outcomes of the symbols' evaluations, whatever the order in which the
\* tasks of each round completed: the persisted signal records are one per
\* symbol whose evaluation gave a signal, and failed_symbols of run_buy is
\* the set of failures of the last round that had any.
C15_ResultIgnoresCompletionOrder ==
    saved =>
        /\ BuyRun =>
              /\ Field(col, "buy_signals") = <<buy_signals>>
              /\ SignalSymbols(buy_signals) = Signalled
              /\ Len(buy_signals) = Cardinality(Signalled)
              /\ failed_symbols = ExpectedFailed
        /\ ~BuyRun =>
              /\ scan_mode # "UNKNOWN"
                    => Field(col, "sell_signals") = <<sell_signals>>
              /\ SignalSymbols(sell_signals) = Signalled
              /\ Len(sell_signals) = Cardinality(Signalled)
              /\ failed_symbols = {}

\* A state C15 is about: both symbols failed in round 1 and gave a signal in
\* round 2, where the task of B completed before the task of A.
C15_Witness ==
    /\ saved
    /\ BuyRun
    /\ Len(buy_signals) = 2
    /\ buy_signals[1].symbol = "B"
    /\ buy_signals[2].symbol = "A"
    /\ nscans["A"] = 2
    /\ nscans["B"] = 2

\* The sell evaluator has returned.
SellEvaluated == ev_pc = "done" /\ ev_in.fn = "sell"

\* The time of day (IST, minutes) of candle i of the chart evaluated.
TimeOf(i) == ist_time(ev_in.candles[i].f[1])

\* The candles at or before 10:00, and the highest of their highs.
MorningCandles == {i \in 1..Len(ev_in.candles) : TimeOf(i) <= 600}

MorningHigh == MaxOf({ev_in.candles[i].f[3] : i \in MorningCandles})

\* The candles at or after 10:00 whose low is below the morning high.
BreachCandles ==
    {i \in 1..Len(ev_in.candles) :
        TimeOf(i) >= 600 /\ ev_in.candles[i].f[4] < MorningHigh}

\* The earliest of them.
FirstBreach ==
    CHOOSE i \in BreachCandles : \A j \in BreachCandles : TimeOf(i) <= TimeOf(j)

\* The evaluator returned a signal built from candle i: entry is its close,
\* entry_time its time, morning_high the morning high.
SignalFrom(i) ==
    /\ ev_out.tag = "dict"
    /\ ev_out.rec.entry = ev_in.candles[i].f[5]
    /\ ev_out.rec.entry_time = <<TimeOf(i) \div 60, TimeOf(i) % 60>>
    /\ ev_out.rec.morning_high = MorningHigh

\* C16, as claimed: for a time-ascending chart the sell evaluator returns no
\* signal when no candle is at or before 10:00 or no candle at or after
\* 10:00 has its low below the morning high, and otherwise a signal built
\* from the earliest such candle.
C16_FirstBreachSignal ==
    SellEvaluated =>
        IF MorningCandles = {} \/ BreachCandles = {}
        THEN ev_out.tag = "None"
        ELSE SignalFrom(FirstBreach)

\* C16, amended: as claimed when the close of the earliest such candle buys
\* at least one share (0 < close <= CAPITAL); when it does not, no signal is
\* returned, whatever the later candles are.
C16_FirstBreachSignalIfAffordable ==
    SellEvaluated =>
        IF MorningCandles = {} \/ BreachCandles = {}
        THEN ev_out.tag = "None"
        ELSE LET close == ev_in.candles[FirstBreach].f[5]
             IN  IF 0 < close /\ close <= CAPITAL * 100
                 THEN SignalFrom(FirstBreach)
                 ELSE ev_out.tag = "None"

\* A state C16 is about: a chart of three candles whose candle at 10:00 does
\* not break below the morning high and whose candle at 10:03 does; the
\* signal is built from that one.
C16_Witness ==
    /\ SellEvaluated
    /\ Len(ev_in.candles) = 3
    /\ BreachCandles = {3}
    /\ ev_out.tag = "dict"
    /\ ev_out.rec.entry_time = <<10, 3>>

\* The buy evaluator has returned.
BuyEvaluated == ev_pc = "done" /\ ev_in.fn = "buy"

\* x is num / den rounded to a nearest integer (hundredths, for prices).
IsRounded(x, num, den) ==
    /\ 2 * (x * den - num) <= den
    /\ 2 * (num - x * den) <= den

\* The signal record rec is the one of a first candle opening at open.
BuyRecordOf(rec, open) ==
    /\ rec.open = open
    /\ IsRounded(rec.entry, open * 103, 100)
    /\ IsRounded(rec.target, rec.entry * 103, 100)
    /\ IsRounded(rec.stoploss, rec.entry * 99, 100)
    /\ rec.qty * rec.entry <= CAPITAL * 100
    /\ (rec.qty + 1) * rec.entry > CAPITAL * 100
    /\ rec.qty >= 1
    /\ rec.status = "PENDING"

\* C17: the buy evaluator returns a signal record only for a first candle
\* with open > 0 and volume >= 100, and does so whenever the capital buys a
\* share at the entry; the record has entry = open * 1.03, target =
\* entry * 1.03 and stoploss = entry * 0.99, each rounded to 2 decimals,
\* qty = floor(20000 / entry) >= 1 and status PENDING; for open = 100.00
\* that is entry 103.00, target 106.09, qty 194.
C17_BuyRecord ==
    BuyEvaluated =>
        LET open == ev_in.candles[1].f[2]
            volume == ev_in.candles[1].f[6]
        IN  /\ ev_out.tag = "dict" =>
                  /\ open > 0
                  /\ volume >= 100
                  /\ BuyRecordOf(ev_out.rec, open)
            /\ (open > 0 /\ volume >= 100 /\ open * 103 <= CAPITAL * 10000)
                  => ev_out.tag = "dict"
            /\ (open = 10000 /\ volume >= 100) =>
                  /\ ev_out.rec.entry = 10300
                  /\ ev_out.rec.target = 10609
                  /\ ev_out.rec.qty = 194

\* A state C17 is about: the record of a first candle opening at 100.00.
C17_Witness ==
    /\ BuyEvaluated
    /\ ev_in.candles[1].f[2] = 10000
    /\ ev_out.tag = "dict"
    /\ ev_out.rec.qty = 194

\* C18: every signal record the sell evaluator returns has its target
\* strictly below its entry, its stoploss strictly above it, and qty >= 1,
\* also for the smallest closing prices.
C18_SellRecordOrdered ==
    (SellEvaluated /\ ev_out.tag = "dict") =>
        /\ ev_out.rec.target < ev_out.rec.entry
        /\ ev_out.rec.entry < ev_out.rec.stoploss
        /\ ev_out.rec.qty >= 1

\* C19: on every calendar day trigger_workflow is called at most once for
\* every (time, workflow) pair of TRIGGERS, whatever minutes the loop reads
\* from the clock; and when the date changes the dedup set is cleared: after
\* that iteration it holds only the keys the iteration itself dispatched.
C19_OncePerPairPerDay ==
    [][/\ \A d \in DOMAIN dispatched' : \A k \in Keys : dispatched'[d][k] <= 1
       /\ last_date' # last_date =>
             triggered_today' \subseteq {calls'[j].key : j \in 1..Len(calls')}]_vars

\* A state C19 is about: a pair that was dispatched on the first day and
\* again on the second, and the first day's other keys were dropped.
C19_Witness ==
    /\ alive
    /\ \E k \in Keys : dispatched[1][k] = 1 /\ dispatched[2][k] = 1
    /\ \E k \in Keys : dispatched[1][k] = 1 /\ k \notin triggered_today

\* C20: when run_sell's find_one found no Day Record and another run has
\* created it before run_sell's afternoon write, the write still succeeds:
\* after it the record holds the sell_signals of this run and
\* run_flags.sell_afternoon_done is true.
C20_AfternoonWriteSurvivesRace ==
    [][\A p \in Procs :
         (/\ WritesSell(p)
          /\ run_mode[p] = "AFTERNOON"
          /\ ~existing[p]
          /\ Matching(col, today) # {})
            => /\ DayFlag(col', "sell_afternoon_done")
               /\ Field(col', "sell_signals") = <<signals[p]>>]_vars

\* The symbols of the entries submitted to a pass.
SymbolsOf(stocks) ==
    {stocks[i].nse_code : i \in {j \in 1..Len(stocks) : stocks[j].dict}}

\* A fetch was evaluated by its requests.
FetchCounted == ev_pc = "done" /\ ev_in.fn = "attempts"

\* The first attempt of responses that succeeds; MAX_RETRIES + 1 if none.
FirstOk(responses) ==
    MinOf({k \in 1..MAX_RETRIES : responses[k].ok} \cup {MAX_RETRIES + 1})

\* What holds of every state: at most FALLBACK_ROUNDS passes, every symbol
\* fetched by no more passes than were started, and a fetch of at most
\* MAX_RETRIES attempts that ends with the first one that succeeds, whose
\* candles it returns.
BoundedWork ==
    /\ round_no <= FALLBACK_ROUNDS
    /\ \A c \in DOMAIN nscans : nscans[c] <= round_no
    /\ FetchCounted =>
         LET made == ev_out.calls
             first == FirstOk(ev_in.responses)
         IN  /\ Len(made) <= MAX_RETRIES
             /\ \A k \in 1..Len(made) : made[k] <=> k = first
             /\ Len(made) = (IF first <= MAX_RETRIES THEN first
                             ELSE MAX_RETRIES)
             /\ first <= MAX_RETRIES
                  => ev_out.candles = ev_in.responses[first].candles

\* A pass after the first scans exactly the symbols that failed in the pass
\* just before it.
RescansTheFailed ==
    (round_no >= 1 /\ round_no' = round_no + 1)
        => /\ SymbolsOf(current_stocks') = next_failed
           /\ pending' = 1..Len(current_stocks')

\* A pass in which no symbol failed is the last one.
EndsEarly ==
    (spc = "scan" /\ pending = {} /\ next_failed = {})
        => (spc' = "save" /\ round_no' = round_no)

\* The run or the fetch has ended.
WorkDone == spc = "done" \/ ev_pc = "done"

\* C21: a buy scan terminates with bounded work: at most FALLBACK_ROUNDS
\* passes, each pass after the first over the symbols that failed in the pass
\* before it, every symbol fetched by at most FALLBACK_ROUNDS passes with at
\* most MAX_RETRIES HTTP attempts each, a fetch stopping at its first
\* successful attempt, and the loop ending as soon as a pass has no failed
\* symbol.
C21_BoundedScan ==
    /\ []BoundedWork
    /\ [][RescansTheFailed /\ EndsEarly]_vars
    /\ <>WorkDone

\* The run used all its passes and a symbol was fetched in each of them.
C21_Witness ==
    /\ saved
    /\ round_no = FALLBACK_ROUNDS
    /\ \E c \in DOMAIN nscans : nscans[c] = FALLBACK_ROUNDS

\* The buy track: what run_buy reads and writes of today's Day Record, and
\* the phases it has written.
BuyTrack ==
    <<DayFlag(col, "morning_done"), DayFlag(col, "afternoon_done"),
      Field(col, "buy_signals"), nwrites["morning_done"],
      nwrites["afternoon_done"]>>

\* A step of run_sell: its start, its find_one, its write.
SellStep ==
    \E p \in Procs :
        \/ StartsSell(p)
        \/ pc[p] = "sell_find" /\ pc'[p] = "sell_write"
        \/ WritesSell(p)

\* C22: the buy track of a trading day does not depend on the sell track:
\* no step of run_sell changes what run_buy reads or has written, the phase
\* run_buy resolves is decided by the morning writes of run_buy alone (also
\* when run_sell created the Day Record), and run_buy sets the flag of the
\* phase it resolved and no other buy-side flag.
C22_BuyTrackIndependent ==
    [][/\ SellStep => BuyTrack' = BuyTrack
       /\ \A p \in Procs :
            /\ StartsBuy(p) =>
                  run_mode'[p] = (IF nwrites["morning_done"] > 0
                                  THEN "AFTERNOON" ELSE "MORNING")
            /\ SavesBuy(p) =>
                  /\ DayFlag(col', BuyFlagOf(run_mode[p]))
                  /\ \A f \in BuyFlags \ {BuyFlagOf(run_mode[p])} :
                        DayFlag(col', f) = DayFlag(col, f)]_vars

\* Sequential invocations: run_sell created the Day Record (no capital in
\* it) and run_buy then wrote its morning phase into it.
C22_Witness ==
    /\ ~overlapped
    /\ Field(col, "capital") = <<>>
    /\ DayFlag(col, "sell_morning_done")
    /\ DayFlag(col, "morning_done")

\* The iteration of this step passed the market-hours check and the
\* same-minute guard: only then is last_minute assigned, to another minute.
PassesGuard == last_minute' # last_minute

\* The entries of TRIGGERS due in that iteration: their time is the current
\* minute and the daily reset left them not triggered.
Due ==
    {k \in Keys : /\ k.t = last_minute'
                  /\ k \notin DailyReset(triggered_today, last_date, last_date')}

\* The keys trigger_workflow was called for in the iteration.
Attempted == {calls'[j].key : j \in 1..Len(calls')}

\* C23: an iteration of the scheduler loop that passes the market-hours
\* check and the same-minute guard attempts a dispatch for every entry of
\* TRIGGERS due at the current minute (both workflows of 15:40) and marks
\* each of them triggered for the day, whatever the dispatch came to.
C23_DispatchesEveryDue ==
    [][PassesGuard => /\ Due \subseteq Attempted
                      /\ Due \subseteq triggered_today']_vars

====
